---- MODULE Spec2Model ----
(***************************************************************************)
(* Model of the script orchestrator: StateManager (core/state_manager.py)  *)
(* driven by the handlers of MainWindow (ui/main_window.py).               *)
(*                                                                         *)
(* The application is single threaded: a handler runs to completion before *)
(* the next one starts.  check_dependencies_and_run is recursive, so its   *)
(* execution is modelled by an explicit call stack; while the stack is not *)
(* empty only the interpreter steps are enabled.                           *)
(***************************************************************************)
EXTENDS Integers, Sequences, FiniteSets, TLC

\* ------------------------------------------------------------------ bounds

\* Depth of the call stack at which the interpreter raises RecursionError.
MaxDepth == 6

\* Number of timeouts of the scheduler timer that are followed.
MaxTicks == 2

\* Number of entries the list of scheduled scripts can hold.
MaxEntries == 2

\* ------------------------------------------------------------ the universe

Scripts == {"A", "B", "C", "D"}
Vars == {"x", "y", "z"}

DefaultDir == "scripts"
ExtraDir == "extra"

\* A script file: its markers, and what its body does when it is executed: the
\* names it binds, the injected objects it modifies in place, and whether the
\* body can raise.
\* A marker comment is the list of the items between its commas; an item is a
\* name, with or without blanks around it.  In "PRODUCE: a, b" the items after
\* the first come with a blank.
Marker(names) ==
  [i \in 1..Len(names) |-> [name |-> names[i], blanks |-> i > 1]]

\* a file under a project directory: its PRODUCE and REQUIRES comments in the
\* order of the source, what its body does, and whether it can be read as
\* UTF-8 text
File(p, produce, require, binds, mutates, raises, readable) ==
  [path |-> p, produce |-> produce, require |-> require,
   binds |-> binds, mutates |-> mutates, raises |-> raises,
   readable |-> readable]

\* a script with at most one comment of each kind
Script(p, prod, req, binds, mutates, raises) ==
  File(p, IF prod = <<>> THEN <<>> ELSE << Marker(prod) >>,
          IF req = <<>> THEN <<>> ELSE << Marker(req) >>,
       binds, mutates, raises, TRUE)

\* a script whose body binds what it declares and can fail
Plain(p, prod, req) ==
  Script(p, prod, req, {prod[i] : i \in 1..Len(prod)}, {}, TRUE)

\* a script whose body binds what it declares and never fails
Sure(p, prod, req) ==
  Script(p, prod, req, {prod[i] : i \in 1..Len(prod)}, {}, FALSE)

\* The files found under the two project directories, and whether writing
\* state.pkl can fail.  Every scenario is one content of the file system; the
\* content does not change during a run.
Scenarios ==
  { \* a chain of three scripts; a second producer of x in the other project
    [scripts |-> << Plain("A", <<"x">>, <<>>),
                    Plain("B", <<"y">>, <<"x">>),
                    Sure("C", <<"z">>, <<"y">>) >>,
      extra  |-> << Sure("D", <<"x">>, <<>>) >>,
      flaky  |-> FALSE],
    \* two scripts requiring each other's variable
    [scripts |-> << Plain("A", <<"y">>, <<"x">>),
                    Plain("B", <<"x">>, <<"y">>) >>,
      extra  |-> << Plain("C", <<"z">>, <<"x">>) >>,
      flaky  |-> FALSE],
    \* a script requiring what it produces, a script with two REQUIRES
    \* comments for a variable nobody produces, a script with no marker at
    \* all, a script that does not bind the name it declares, and a file that
    \* cannot be read
    [scripts |-> << Plain("A", <<"x">>, <<"x">>),
                    File("B", <<>>, << Marker(<<"z">>), Marker(<<"z">>) >>,
                         {}, {}, TRUE, TRUE),
                    Plain("C", <<>>, <<>>),
                    Script("D", <<"y">>, <<>>, {}, {}, FALSE),
                    File("E", << Marker(<<"z">>) >>, <<>>, {"z"}, {}, FALSE, FALSE) >>,
      extra  |-> << >>,
      flaky  |-> FALSE],
    \* a script producing two variables, both required by the same consumer;
    \* a consumer with a requirement that only the other project satisfies
    [scripts |-> << Plain("A", <<"x", "y">>, <<>>),
                    Plain("B", <<>>, <<"x", "y">>),
                    Plain("C", <<>>, <<"x", "z">>) >>,
      extra  |-> << Sure("D", <<"z">>, <<>>) >>,
      flaky  |-> FALSE],
    \* a diamond
    [scripts |-> << Sure("A", <<"x">>, <<>>),
                    Plain("B", <<"y">>, <<"x">>),
                    Sure("C", <<"z">>, <<"x">>),
                    Sure("D", <<>>, <<"y", "z">>) >>,
      extra  |-> << >>,
      flaky  |-> FALSE],
    \* a consumer that modifies the object it is given
    [scripts |-> << Plain("A", <<"x">>, <<>>),
                    Script("B", <<"y">>, <<"x">>, {"y"}, {"x"}, TRUE) >>,
      extra  |-> << >>,
      flaky  |-> FALSE],
    \* a disk on which the write of state.pkl can fail
    [scripts |-> << Plain("A", <<"x">>, <<>>),
                    Plain("B", <<"y">>, <<"x">>) >>,
      extra  |-> << >>,
      flaky  |-> TRUE] }

\* ------------------------------------------------------------------ values

\* A value of the store: the script whose execution built the object, and
\* whether the object was modified in place after it was built.
NoValue == [by |-> "none", mut |-> FALSE]
OldValue == [by |-> "old", mut |-> FALSE]
Fresh(p) == [by |-> p, mut |-> FALSE]
Touched(v) == [by |-> v.by, mut |-> TRUE]

EmptyDict == [v \in Vars |-> NoValue]
Keys(d) == {v \in Vars : d[v] # NoValue}

\* ------------------------------------------------------- sequence helpers

Range(s) == {s[i] : i \in 1..Len(s)}

RECURSIVE Concat(_, _, _)
\* f(s[1]) \o f(s[2]) \o ... where f is given as a function on Range(s)
Concat(s, f, i) == IF i > Len(s) THEN <<>> ELSE f[s[i]] \o Concat(s, f, i + 1)

RECURSIVE Dedup(_, _)
\* s without the later occurrences of an element; seen = elements already kept
Dedup(s, seen) ==
  IF s = <<>> THEN <<>>
  ELSE IF Head(s) \in seen THEN Dedup(Tail(s), seen)
       ELSE <<Head(s)>> \o Dedup(Tail(s), seen \cup {Head(s)})

\* ------------------------------------------------- registry and the graph

Paths(reg) == {reg[i].path : i \in 1..Len(reg)}
Meta(reg, p) == CHOOSE m \in Range(reg) : m.path = p

\* var.strip()
strip(item) == item.name

RECURSIVE Extract(_, _)
\* lines 24-30: re.findall gives the list of every comment of a kind, in the
\* order of the source; each is split at its commas, and the stripped items
\* are appended to the list
Extract(markers, i) ==
  IF i > Len(markers) THEN <<>>
  ELSE [k \in 1..Len(markers[i]) |-> strip(markers[i][k])]
         \o Extract(markers, i + 1)

RECURSIVE discover_scripts(_, _)
\* registry.discover_scripts over the files of a directory: a file that cannot
\* be read raises inside the try block and gets no entry (lines 15-17, 44-45)
discover_scripts(files, i) ==
  IF i > Len(files) THEN <<>>
  ELSE (IF files[i].readable
        THEN << [path |-> files[i].path,
                 produces |-> Extract(files[i].produce, 1),
                 requires |-> Extract(files[i].require, 1),
                 binds |-> files[i].binds, mutates |-> files[i].mutates,
                 raises |-> files[i].raises] >>
        ELSE <<>>)
         \o discover_scripts(files, i + 1)

\* the registry after refresh_all_scripts has gone through the project roots
Discover(files, roots) ==
  Concat(roots, [r \in Range(roots) |-> discover_scripts(files[r], 1)], 1)

\* var_producers[v]: the paths producing v, in registry order
VarProducers(reg, v) ==
  LET keep(m) == v \in Range(m.produces)
      paths == [i \in 1..Len(reg) |-> reg[i].path]
      idx == {i \in 1..Len(reg) : keep(reg[i])}
      RECURSIVE Pick(_)
      Pick(i) == IF i > Len(reg) THEN <<>>
                 ELSE (IF i \in idx THEN <<paths[i]>> ELSE <<>>) \o Pick(i + 1)
  IN Pick(1)

\* G.predecessors(c): the producers of c's required variables in the order
\* in which build_dependency_graph added their edges
Predecessors(reg, c) ==
  LET req == Meta(reg, c).requires
      prods == [v \in Range(req) |-> VarProducers(reg, v)]
  IN Dedup(Concat(req, prods, 1), {})

\* the edge carries the first variable the consumer requires
EdgeVarOfConsumer(reg, u, c) == Meta(reg, c).requires[1]

\* the attribute 'var' of the edge u -> c: a DiGraph keeps one edge per pair,
\* so a later add_edge of the same pair overwrites the attribute
EdgeVar(reg, u, c) ==
  LET req == Meta(reg, c).requires
      hits == {i \in 1..Len(req) : req[i] \in Range(Meta(reg, u).produces)}
  IN req[CHOOSE i \in hits : \A j \in hits : j <= i]

build_dependency_graph(reg) ==
  [nodes |-> Paths(reg),
   pred  |-> [c \in Paths(reg) |-> Predecessors(reg, c)],
   var   |-> [e \in {e \in Paths(reg) \X Paths(reg) :
                       e[1] \in Range(Predecessors(reg, e[2]))}
              |-> EdgeVar(reg, e[1], e[2])]]

EmptyGraph == build_dependency_graph(<<>>)

Edges(g) == DOMAIN g.var

RECURSIVE Reach(_, _)
\* the nodes with a path into the set s (s included)
Reach(g, s) ==
  LET more == s \cup {e[1] : e \in {e \in Edges(g) : e[2] \in s}}
  IN IF more = s THEN s ELSE Reach(g, more)

\* nx.ancestors(g, p): the nodes with a path to p, p itself left out
Ancestors(g, p) == Reach(g, {p}) \ {p}

HasCycle(g) == \E p \in g.nodes : p \in Reach(g, Range(g.pred[p]))

\* ------------------------------------------------------------------- state

VARIABLES
  fs,             \* the script files under each project directory
  disk,           \* the content of state.pkl
  app,            \* "up" while the process runs, "down" after a failed start
  project_roots,  \* MainWindow.project_roots
  registry,       \* MainWindow.registry = StateManager.registry
  graph,          \* StateManager.graph
  script_states,  \* StateManager.script_states ("absent": no entry)
  data,           \* StateManager.data, the variable store
  nodes,          \* GraphView.nodes: the state shown by each node
  stack,          \* the call stack of check_dependencies_and_run
  call,           \* the resolve call in progress, or the reset just done
  pre,            \* store and states when the call in progress started
  events,         \* scriptStateChanged emissions of the call in progress
  execLog,        \* the script bodies executed by the call in progress
  saved,          \* whether the last write of state.pkl succeeded
  now,            \* the wall clock, in minutes since Monday 00:00
  ticks,          \* the timeouts of scheduler_timer so far
  scheduled_scripts, \* MainWindow.scheduled_scripts
  scheduler_file, \* the content of scheduled_scripts.json
  tick,           \* the position of run_scheduled_scripts in its loop
  lastFired,      \* per entry, the time at which it last fired
  leftIdle,       \* the scripts whose state was set since the last reset
  runner          \* the call of ScriptRunner.run_script in progress

vars == << fs, disk, app, project_roots, registry, graph, script_states, data,
           nodes, stack, call, pre, events, execLog, saved,
           now, ticks, scheduled_scripts, scheduler_file, tick, lastFired,
           leftIdle, runner >>

States == {"idle", "running", "partial_finished", "finished", "error"}
Done == {"finished", "partial_finished"}

NoCall == [op |-> "none", target |-> "none", stop |-> FALSE, force |-> FALSE]
NoPre == [data |-> EmptyDict, states |-> [p \in Scripts |-> "absent"]]

\* the recorded state of a script; a script without an entry has not left idle
StateOf(states, p) == IF states[p] = "absent" THEN "idle" ELSE states[p]

\* -------------------------------------------------------------- StateManager

\* every script of the registry is set to idle
update_states_to_idle(states, reg) ==
  [p \in Scripts |-> IF p \in Paths(reg) THEN "idle" ELSE "absent"]

\* lines 16-24: a script of the registry without a state gets idle, and the
\* state of a path that is not in the registry is deleted
update_states_from_registry(states, reg) ==
  [p \in Scripts |->
     IF p \in Paths(reg)
     THEN (IF states[p] = "absent" THEN "idle" ELSE states[p])
     ELSE "absent"]

\* the first script of the registry declaring var_name, "none" when there is none
get_source_script(reg, var_name) ==
  LET hits == {i \in 1..Len(reg) : var_name \in Range(reg[i].produces)}
  IN IF hits = {} THEN "none"
     ELSE reg[CHOOSE i \in hits : \A j \in hits : i <= j].path

\* pickle.dump of a dictionary: the items it holds
Pickle(d) == {<<v, d[v]>> : v \in Keys(d)}

\* pickle.load: the dictionary with the items of the file
Unpickle(file) ==
  [v \in Vars |-> IF \E it \in file : it[1] = v
                  THEN (CHOOSE it \in file : it[1] = v)[2]
                  ELSE NoValue]

\* the content of state.pkl is unpickled; without the file the store is empty
load_state_data(file) == Unpickle(file)

\* the store is pickled into state.pkl; an IOError is caught and leaves the
\* file as it was
save_state_data(file, d, ioOk) == IF ioOk THEN Pickle(d) ELSE file

\* the labels of the edges below the target whose source has not finished
MissingDependencies(g, states, target) ==
  LET sub == Ancestors(g, target) \cup {target}
  IN {g.var[e] : e \in {e \in Edges(g) : /\ e[1] \in sub
                                          /\ e[2] \in sub
                                          /\ states[e[1]] \notin Done}}

\* update_variables_list raises when a stored variable has no source script
VariablesListFails(reg, d) ==
  \E v \in Keys(d) : get_source_script(reg, v) = "none"

\* ------------------------------------------------------------- the call stack

Frame(fn, p, stop, force, pc) ==
  [fn |-> fn, path |-> p, stop |-> stop, force |-> force, pc |-> pc, i |-> 1]

Top == stack[Len(stack)]
Running == stack # <<>>
TopIs(fn, pc) == Running /\ Top.fn = fn /\ Top.pc = pc

WithTop(f) == [stack EXCEPT ![Len(stack)] = f]
Pop == SubSeq(stack, 1, Len(stack) - 1)

\* the stack after the top frame, changed to f, calls
\* run_script_with_dependencies; at the depth limit the call raises
\* RecursionError instead, which no frame catches (the calls of lines 69, 143
\* and 145 are outside the try block): the stack unwinds to the handler
PushRun(f, p, stop, force) ==
  IF Len(stack) >= MaxDepth
  THEN << [stack[1] EXCEPT !.pc = "raised"] >>
  ELSE Append(WithTop(f), Frame("run", p, stop, force, "enter"))

\* scriptStateChanged.emit(p, s) and its slot handle_script_state_change
NodesAfter(p, s) == IF nodes[p] = "absent" THEN nodes ELSE [nodes EXCEPT ![p] = s]

Emit(p, s) ==
  /\ events' = Append(events, [path |-> p, state |-> s])
  /\ nodes' = NodesAfter(p, s)

Static == UNCHANGED << runner, fs, app, project_roots, registry, graph,
                       now, ticks, scheduled_scripts, scheduler_file >>

\* run_scheduled_scripts is not in its loop
NoTick == [pc |-> "idle", i |-> 0]

\* no handler ever counts as executing
NeverBusy == FALSE

\* a handler is executing: a resolve call, or a pass of the scheduler
Busy == Running \/ tick.pc # "idle"

\* scheduled_scripts.json: json.dump writes the list as a JSON array, and
\* json.load reads the array of an existing file
NoFile == [exists |-> FALSE, entries |-> <<>>]
JsonDump(list) == [exists |-> TRUE, entries |-> list]
JsonLoad(file) == file.entries

\* MainWindow.save_scheduled_scripts
save_scheduled_scripts(list) == JsonDump(list)

\* MainWindow.load_scheduled_scripts: the list stays as it is without the file
load_scheduled_scripts(file, list) == IF file.exists THEN JsonLoad(file) ELSE list

\* ------------------------------------------------------------ initial state

\* what MainWindow.refresh_all_scripts leaves in the graph view: a new node,
\* shown idle, for every script of the registry
FreshNodes(reg) == [p \in Scripts |-> IF p \in Paths(reg) THEN "idle" ELSE "absent"]

\* the snapshots a previous session can have left with which the window starts
InitSnapshots(reg) ==
  {Pickle([v \in Vars |-> IF v \in S THEN OldValue ELSE NoValue]) :
     S \in {{}, {v \in Vars : get_source_script(reg, v) # "none"}}}

\* a temporary file that does not exist; the state file holds a pickle, the
\* temporary script the lines written to it
NoStateFile == [exists |-> FALSE, content |-> {}]
NoTempScript == [exists |-> FALSE, lines |-> <<>>]

\* the process of the temporary script before its first statement: the
\* bindings of its module, the names recorded as initial, the two streams, the
\* exit code, whether it has ended before its last statement, and the number
\* of lines of the script it has executed
NoProcess ==
  [globals |-> EmptyDict, initial_globals |-> {}, stdout |-> <<>>,
   stderr |-> <<>>, returncode |-> 0, exited |-> FALSE, done |-> 0]

\* no call of ScriptRunner.run_script is in progress
NoRun ==
  [pc |-> "idle", source_code |-> <<>>, state_data |-> EmptyDict,
   stop_at_produces |-> FALSE, produces |-> <<>>,
   state_file |-> NoStateFile, temp_script |-> NoTempScript,
   result |-> NoProcess, produced_data |-> EmptyDict]

\* MainWindow.__init__ and StateManager.__init__
Init ==
  /\ fs \in Scenarios
  /\ app = "up"
  /\ project_roots = <<DefaultDir>>
  /\ registry = Discover(fs, project_roots)
  /\ graph = build_dependency_graph(registry)
  /\ disk \in InitSnapshots(registry)
  /\ data = load_state_data(disk)
  /\ script_states = [p \in Scripts |-> "absent"]
  /\ nodes = FreshNodes(registry)
  /\ stack = <<>>
  /\ call = NoCall
  /\ pre = NoPre
  /\ events = <<>>
  /\ execLog = <<>>
  /\ saved = TRUE
  /\ now = 0
  /\ ticks = 0
  /\ scheduler_file = NoFile
  /\ scheduled_scripts = load_scheduled_scripts(scheduler_file, <<>>)
  /\ tick = NoTick
  /\ lastFired = <<>>
  /\ leftIdle = {}
  /\ runner = NoRun

\* ------------------------------------------------ check_dependencies_and_run

\* lines 131-140: the states are brought in line with the registry, then the
\* loop over the idle predecessors is entered when a dependency is missing
check_dependencies_and_run(target, stop, force) ==
  LET st == update_states_from_registry(script_states, registry)
      missing == MissingDependencies(graph, st, target)
  IN /\ script_states' = st
     /\ stack' = << Frame("check", target, stop, force,
                          IF missing # {} THEN "preds" ELSE "main") >>
     /\ call' = [op |-> "run", target |-> target, stop |-> stop, force |-> force]
     /\ pre' = [data |-> data, states |-> script_states]
     /\ events' = <<>>
     /\ execLog' = <<>>
     /\ UNCHANGED << data, disk, nodes, saved >>
     /\ Static

\* MainWindow.on_run_script_from_node, from "Correr"
RunScript(target) ==
  /\ app = "up" /\ ~Busy
  /\ target \in Paths(registry)
  /\ check_dependencies_and_run(target, FALSE, FALSE)
  /\ UNCHANGED << tick, lastFired, leftIdle >>

\* MainWindow.on_run_script_from_node with force_run, from "Continuar carga del
\* script", which the node offers while it shows partial_finished
ContinueScript(target) ==
  /\ app = "up" /\ ~Busy
  /\ target \in Paths(registry)
  /\ nodes[target] = "partial_finished"
  /\ check_dependencies_and_run(target, FALSE, TRUE)
  /\ UNCHANGED << tick, lastFired, leftIdle >>

\* MainWindow.on_run_partial_script_from_node
RunPartialScript(target) ==
  /\ app = "up" /\ ~Busy
  /\ target \in Paths(registry)
  /\ check_dependencies_and_run(target, TRUE, FALSE)
  /\ UNCHANGED << tick, lastFired, leftIdle >>

\* the loop over the predecessors hands the partial flag of the call down
CheckPredsPassingStop ==
  /\ TopIs("check", "preds")
  /\ LET f == Top
         ps == graph.pred[f.path]
     IN IF f.i > Len(ps)
        THEN stack' = WithTop([f EXCEPT !.pc = "main"])
        ELSE LET g == [f EXCEPT !.i = f.i + 1]
                 p == ps[f.i]
             IN IF script_states[p] = "idle"
                THEN stack' = PushRun(g, p, f.stop, FALSE)
                ELSE stack' = WithTop(g)
  /\ UNCHANGED << script_states, data, disk, nodes, call, pre, events, execLog,
                  saved >>
  /\ Static
  /\ UNCHANGED << tick, lastFired, leftIdle >>

\* lines 141-143: one iteration of the loop over the predecessors
CheckPreds ==
  /\ TopIs("check", "preds")
  /\ LET f == Top
         ps == graph.pred[f.path]
     IN IF f.i > Len(ps)
        THEN stack' = WithTop([f EXCEPT !.pc = "main"])
        ELSE LET g == [f EXCEPT !.i = f.i + 1]
                 p == ps[f.i]
             IN IF script_states[p] = "idle"
                THEN stack' = PushRun(g, p, FALSE, FALSE)
                ELSE stack' = WithTop(g)
  /\ UNCHANGED << script_states, data, disk, nodes, call, pre, events, execLog,
                  saved >>
  /\ Static
  /\ UNCHANGED << tick, lastFired, leftIdle >>

\* line 145: the target itself
CheckMain ==
  /\ TopIs("check", "main")
  /\ LET f == Top
     IN stack' = PushRun([f EXCEPT !.pc = "ret"], f.path, f.stop, f.force)
  /\ UNCHANGED << script_states, data, disk, nodes, call, pre, events, execLog,
                  saved >>
  /\ Static
  /\ UNCHANGED << tick, lastFired, leftIdle >>

\* the handler is over: what was recorded about the call is dropped
Forget ==
  /\ call' = NoCall
  /\ pre' = NoPre
  /\ events' = <<>>
  /\ execLog' = <<>>

\* check_dependencies_and_run returns to the handler
CheckReturn ==
  /\ TopIs("check", "ret")
  /\ stack' = <<>>
  /\ Forget
  /\ UNCHANGED << script_states, data, disk, nodes, saved >>
  /\ Static
  /\ UNCHANGED << tick, lastFired, leftIdle >>

\* the RecursionError leaves check_dependencies_and_run and the handler; when
\* the handler is run_scheduled_scripts, its loop is left as well
CheckRaised ==
  /\ TopIs("check", "raised")
  /\ stack' = <<>>
  /\ Forget
  /\ UNCHANGED << script_states, data, disk, nodes, saved >>
  /\ Static
  /\ tick' = NoTick
  /\ UNCHANGED << lastFired, leftIdle >>

\* ---------------------------------------------- run_script_with_dependencies

\* a script that already ran is skipped, forced or not
RunEnterIgnoringForce ==
  /\ TopIs("run", "enter")
  /\ LET f == Top
     IN IF script_states[f.path] \in Done
        THEN stack' = Pop
        ELSE stack' = WithTop([f EXCEPT !.pc = "preds"])
  /\ UNCHANGED << script_states, data, disk, nodes, call, pre, events, execLog,
                  saved >>
  /\ Static
  /\ UNCHANGED << tick, lastFired, leftIdle >>

\* lines 63-65: a script that already ran is skipped unless the run is forced
RunEnter ==
  /\ TopIs("run", "enter")
  /\ LET f == Top
     IN IF script_states[f.path] \in Done /\ ~f.force
        THEN stack' = Pop
        ELSE stack' = WithTop([f EXCEPT !.pc = "preds"])
  /\ UNCHANGED << script_states, data, disk, nodes, call, pre, events, execLog,
                  saved >>
  /\ Static
  /\ UNCHANGED << tick, lastFired, leftIdle >>

\* RunPreds with the recursive call of line 69 left out
RunPredsNoRecursion ==
  /\ TopIs("run", "preds")
  /\ stack' = WithTop([Top EXCEPT !.pc = "req"])
  /\ UNCHANGED << script_states, data, disk, nodes, call, pre, events, execLog,
                  saved >>
  /\ Static
  /\ UNCHANGED << tick, lastFired, leftIdle >>

\* the loop does not move on from a predecessor that is up to date
RunPredsStuck ==
  /\ TopIs("run", "preds")
  /\ LET f == Top
         ps == graph.pred[f.path]
     IN IF f.i > Len(ps)
        THEN stack' = WithTop([f EXCEPT !.pc = "req"])
        ELSE LET g == [f EXCEPT !.i = f.i + 1]
                 p == ps[f.i]
             IN IF script_states[p] # "absent"
                THEN stack' = PushRun(IF script_states[p] \in Done THEN f ELSE g,
                                      p, FALSE, FALSE)
                ELSE stack' = WithTop(g)
  /\ UNCHANGED << script_states, data, disk, nodes, call, pre, events, execLog,
                  saved >>
  /\ Static
  /\ UNCHANGED << tick, lastFired, leftIdle >>

\* lines 67-69: one iteration of the loop over the predecessors
RunPreds ==
  /\ TopIs("run", "preds")
  /\ LET f == Top
         ps == graph.pred[f.path]
     IN IF f.i > Len(ps)
        THEN stack' = WithTop([f EXCEPT !.pc = "req"])
        ELSE LET g == [f EXCEPT !.i = f.i + 1]
                 p == ps[f.i]
             IN IF script_states[p] # "absent"
                THEN stack' = PushRun(g, p, FALSE, FALSE)
                ELSE stack' = WithTop(g)
  /\ UNCHANGED << script_states, data, disk, nodes, call, pre, events, execLog,
                  saved >>
  /\ Static
  /\ UNCHANGED << tick, lastFired, leftIdle >>

required_vars(p) == Meta(registry, p).requires

\* no variable is ever reported missing
no_missing_vars(p) == {}

\* line 72: the required variables that are not in the store
missing_vars(p) == {v \in Range(required_vars(p)) : v \notin Keys(data)}

\* lines 71-79: the required variables are looked up in the store
RunRequires ==
  /\ TopIs("run", "req")
  /\ LET f == Top
     IN IF missing_vars(f.path) # {}
        THEN /\ Emit(f.path, "error")
             /\ stack' = Pop
        ELSE /\ Emit(f.path, "running")
             /\ stack' = WithTop([f EXCEPT !.pc = "exec"])
  /\ UNCHANGED << script_states, data, disk, call, pre, execLog, saved >>
  /\ Static
  /\ UNCHANGED << tick, lastFired, leftIdle >>

\* the partial-stop sentinel on the output of the executed code: exec runs the
\* source of the script as it is, in which nothing prints the sentinel
SentinelPrinted(p, stop) == FALSE

\* the state recorded after a successful execution, lines 112-117
StateAfterSuccess(stop) == IF stop THEN "partial_finished" ELSE "finished"

\* the store after self.data.update(produced_vars), line 109
Merge(d, produced) == [v \in Vars |-> IF produced[v] # NoValue THEN produced[v] ELSE d[v]]

\* an exception of the body leaves run_script_with_dependencies and every
\* caller of it
AfterBodyPropagating(ok) ==
  IF ok THEN Pop ELSE << [stack[1] EXCEPT !.pc = "raised"] >>

\* lines 121-124: the except clause records the failure, and the call returns
\* to its caller as it does after a success
AfterBody(ok) == Pop

\* lines 81-124: the body of the script runs in the process of the orchestrator
\* on the objects of the store.  mut: the injected objects the body modifies in
\* place; bound: the names the body binds; raises: the body raises, after
\* it has done the former.
RunBody ==
  /\ TopIs("run", "exec")
  /\ LET f == Top
         p == f.path
         injected == Range(required_vars(p)) \cap Keys(data)
         declared == Range(Meta(registry, p).produces)
         m == Meta(registry, p)
         mut == m.mutates \cap injected
         bound == m.binds
     IN \E raises \in (IF m.raises THEN BOOLEAN ELSE {FALSE}),
           ioOk \in (IF fs.flaky THEN BOOLEAN ELSE {TRUE}) :
          LET d1 == [v \in Vars |-> IF v \in mut THEN Touched(data[v]) ELSE data[v]]
              namespace == [v \in Vars |->
                              IF v \in bound THEN Fresh(p)
                              ELSE IF v \in injected THEN d1[v] ELSE NoValue]
              ok == ~raises /\ \A v \in declared : namespace[v] # NoValue
              produced_vars == [v \in Vars |->
                                  IF v \in declared THEN namespace[v] ELSE NoValue]
              d2 == IF ok THEN Merge(d1, produced_vars) ELSE d1
              s == IF ok THEN StateAfterSuccess(f.stop) ELSE "error"
          IN /\ (~ok => ioOk)
             /\ data' = d2
             /\ disk' = IF ok THEN save_state_data(disk, d2, ioOk) ELSE disk
             /\ saved' = IF ok THEN ioOk ELSE saved
             /\ script_states' = [script_states EXCEPT ![p] = s]
             /\ Emit(p, s)
             /\ execLog' = Append(execLog,
                   [path |-> p, stop |-> f.stop, force |-> f.force, ok |-> ok,
                    sentinel |-> SentinelPrinted(p, f.stop),
                    was |-> script_states[p], state |-> s,
                    injected |-> [v \in Vars |->
                                    IF v \in injected THEN data[v] ELSE NoValue],
                    before |-> data, after |-> d2])
             /\ leftIdle' = leftIdle \cup {p}
             /\ stack' = AfterBody(ok)
  /\ UNCHANGED << call, pre >>
  /\ Static
  /\ UNCHANGED << tick, lastFired >>

\* ------------------------------------------------------------ other handlers

\* reset_state without the loop that sets the states back to idle
reset_state_keeps_states(ioOk) ==
  /\ data' = EmptyDict
  /\ script_states' = script_states
  /\ disk' = save_state_data(disk, EmptyDict, ioOk)
  /\ saved' = ioOk

\* StateManager.reset_state, lines 26-31
reset_state(ioOk) ==
  /\ data' = EmptyDict
  /\ script_states' = [p \in Scripts |->
                         IF script_states[p] = "absent" THEN "absent" ELSE "idle"]
  /\ disk' = save_state_data(disk, EmptyDict, ioOk)
  /\ saved' = ioOk

\* MainWindow.on_reset_state
ResetState ==
  /\ app = "up" /\ ~Busy
  /\ \E ioOk \in (IF fs.flaky THEN BOOLEAN ELSE {TRUE}) : reset_state(ioOk)
  /\ nodes' = [p \in Scripts |-> IF nodes[p] = "absent" THEN "absent" ELSE "idle"]
  /\ call' = [NoCall EXCEPT !.op = "reset"]
  /\ leftIdle' = {}
  /\ UNCHANGED << stack, pre, events, execLog >>
  /\ Static
  /\ UNCHANGED << tick, lastFired >>

\* MainWindow.refresh_all_scripts with the project roots given
refresh_all_scripts(roots) ==
  LET reg == Discover(fs, roots)
  IN /\ project_roots' = roots
     /\ registry' = reg
     /\ graph' = build_dependency_graph(reg)
     /\ nodes' = FreshNodes(reg)
     /\ call' = NoCall
     /\ UNCHANGED << runner, leftIdle, fs, app, disk, script_states, data, stack, saved,
                     pre, events, execLog,
                     now, ticks, scheduled_scripts, scheduler_file, tick,
                     lastFired >>

\* "Recargar Todo", and the selection of a project in the list
Refresh ==
  /\ app = "up" /\ ~Busy
  /\ refresh_all_scripts(project_roots)

\* MainWindow.on_add_project
AddProject ==
  /\ app = "up" /\ ~Busy
  /\ ExtraDir \notin Range(project_roots)
  /\ refresh_all_scripts(Append(project_roots, ExtraDir))

\* MainWindow.on_remove_project; the default directory cannot be removed
RemoveProject ==
  /\ app = "up" /\ ~Busy
  /\ ExtraDir \in Range(project_roots)
  /\ refresh_all_scripts(<<DefaultDir>>)

\* the process ends and is started again: MainWindow.__init__ loads state.pkl
\* and scans the default directory; the start fails when the variables list
\* cannot be filled
Restart ==
  /\ ~Busy
  /\ LET reg == Discover(fs, <<DefaultDir>>)
         d == load_state_data(disk)
         fails == VariablesListFails(reg, d)
     IN /\ app' = IF fails THEN "down" ELSE "up"
        /\ project_roots' = <<DefaultDir>>
        /\ registry' = IF fails THEN <<>> ELSE reg
        /\ graph' = build_dependency_graph(registry')
        /\ nodes' = FreshNodes(registry')
        /\ data' = IF fails THEN EmptyDict ELSE d
        /\ script_states' = [p \in Scripts |-> "absent"]
        /\ scheduled_scripts' = IF fails THEN <<>>
                                ELSE load_scheduled_scripts(scheduler_file, <<>>)
        /\ lastFired' = IF fails THEN <<>> ELSE lastFired
  /\ saved' = TRUE
  /\ leftIdle' = {}
  /\ call' = NoCall
  /\ UNCHANGED << runner, fs, disk, stack, pre, events, execLog,
                  now, ticks, scheduler_file, tick >>

\* ---------------------------------------------------------------- scheduler

\* None, and dict.get: the value of the key, its default when the key is absent
Null == <<>>
Get(d, k, default) == IF k \in DOMAIN d THEN d[k] ELSE default

\* QDateTime.toString(Qt.ISODate) and QDateTime.fromString(., Qt.ISODate)
IsoDate(t) == <<t>>
FromIsoDate(str) == str[1]

\* QTime.toString("hh:mm") of the time of day
HhMm(t) == <<(t \div 60) % 24, t % 60>>

\* QDate.dayOfWeek: 1 = Monday ... 7 = Sunday
DayOfWeek(t) == ((t \div (24 * 60)) % 7) + 1

days_of_week ==
  <<"Lunes", "Martes", "Miércoles", "Jueves", "Viernes", "Sábado", "Domingo">>

\* the minutes between two timeouts of the timer that are followed: nine
\* minutes, just under four hours, four hours and one minute
Jumps == {9, 239, 241}

\* what the user enters in SchedulerDialog: the interval is an integer of
\* QIntValidator(1, 24), the minutes between retries one of
\* QIntValidator(1, 1440)
Daily ==
  [frequency |-> "Diario", time |-> HhMm(9), days |-> <<>>, hours |-> 1,
   retry |-> 9]
Weekly ==
  [frequency |-> "Semanal", time |-> HhMm(9), days |-> <<"Lunes">>, hours |-> 1,
   retry |-> 9]
EveryFourHours ==
  [frequency |-> "Cada X horas", time |-> HhMm(0), days |-> <<>>, hours |-> 4,
   retry |-> 9]

\* the requests to schedule a script that are followed: the script of the
\* node, and the content of the dialog
ScheduleRequests ==
  { <<"A", EveryFourHours>>, <<"B", Daily>>, <<"C", Weekly>> }

\* the schedule_config built from the dialog, lines 897-910
schedule_config(script_path, inp) ==
  LET base == [script_path |-> script_path, frequency |-> inp.frequency,
               time |-> inp.time, last_run |-> Null]
  IN IF inp.frequency = "Semanal" THEN base @@ [days |-> inp.days]
     ELSE IF inp.frequency = "Cada X horas"
          THEN base @@ [hours_interval |-> inp.hours]
          ELSE base

\* MainWindow.on_schedule_script
ScheduleScript(script_path, inp) ==
  /\ app = "up" /\ ~Busy
  /\ script_path \in Paths(registry)
  /\ Len(scheduled_scripts) < MaxEntries
  /\ scheduled_scripts' = Append(scheduled_scripts, schedule_config(script_path, inp))
  /\ scheduler_file' = save_scheduled_scripts(scheduled_scripts')
  /\ lastFired' = Append(lastFired, Null)
  /\ UNCHANGED << runner, leftIdle, fs, disk, app, project_roots, registry, graph, script_states,
                  data, nodes, stack, call, pre, events, execLog, saved,
                  now, ticks, tick >>

\* the conditions under which run_scheduled_scripts runs the script of an
\* entry at time t, lines 941-961
ShouldRun(e, t) ==
  LET frequency == Get(e, "frequency", Null)
  IN \/ /\ frequency = "Diario"
        /\ Get(e, "time", Null) = HhMm(t)
     \/ /\ frequency = "Semanal"
        /\ Get(e, "time", Null) = HhMm(t)
        /\ days_of_week[DayOfWeek(t)] \in Range(Get(e, "days", <<>>))
     \/ /\ frequency = "Cada X horas"
        /\ \/ Get(e, "last_run", Null) = Null
           \/ /\ Get(e, "last_run", Null) # Null
              /\ FromIsoDate(e.last_run) + (e.hours_interval * 3600) \div 60 <= t

\* the timer of the scheduler times out, d minutes after the clock was last
\* read, while no handler is executing: run_scheduled_scripts starts
Tick(d) ==
  /\ app = "up" /\ ~Busy
  /\ ticks < MaxTicks
  /\ now' = now + d
  /\ ticks' = ticks + 1
  /\ tick' = [pc |-> "eval", i |-> 1]
  /\ UNCHANGED << runner, leftIdle, fs, disk, app, project_roots, registry, graph, script_states,
                  data, nodes, stack, call, pre, events, execLog, saved,
                  scheduled_scripts, scheduler_file, lastFired >>

\* the entry the loop of run_scheduled_scripts is at
Entry == scheduled_scripts[tick.i]
AtEntry == tick.pc = "eval" /\ stack = <<>> /\ tick.i <= Len(scheduled_scripts)

\* one iteration of the loop for an entry that is not due
TickSkip ==
  /\ AtEntry
  /\ ~ShouldRun(Entry, now)
  /\ tick' = [tick EXCEPT !.i = @ + 1]
  /\ UNCHANGED << runner, leftIdle, fs, disk, app, project_roots, registry, graph, script_states,
                  data, nodes, stack, call, pre, events, execLog, saved,
                  now, ticks, scheduled_scripts, scheduler_file, lastFired >>

\* one iteration of the loop for an entry that is due: the call of
\* check_dependencies_and_run
TickFire ==
  /\ AtEntry
  /\ ShouldRun(Entry, now)
  /\ Entry.script_path \in graph.nodes
  /\ check_dependencies_and_run(Entry.script_path, FALSE, FALSE)
  /\ tick' = [tick EXCEPT !.pc = "fired"]
  /\ lastFired' = [lastFired EXCEPT ![tick.i] = IsoDate(now)]
  /\ UNCHANGED leftIdle

\* the same for a script that is not a node of the graph: after line 131,
\* nx.ancestors raises NetworkXError (line 133), which leaves the loop and
\* run_scheduled_scripts
TickFireUnknown ==
  /\ AtEntry
  /\ ShouldRun(Entry, now)
  /\ Entry.script_path \notin graph.nodes
  /\ script_states' = update_states_from_registry(script_states, registry)
  /\ tick' = NoTick
  /\ lastFired' = [lastFired EXCEPT ![tick.i] = IsoDate(now)]
  /\ UNCHANGED << runner, leftIdle, fs, disk, app, project_roots, registry, graph,
                  data, nodes, stack, call, pre, events, execLog, saved,
                  now, ticks, scheduled_scripts, scheduler_file >>

\* check_dependencies_and_run has returned: the entry records the time
TickAfter ==
  /\ tick.pc = "fired" /\ stack = <<>>
  /\ scheduled_scripts' = [scheduled_scripts EXCEPT ![tick.i] =
                             [@ EXCEPT !.last_run = IsoDate(now)]]
  /\ tick' = [pc |-> "eval", i |-> tick.i + 1]
  /\ UNCHANGED << runner, leftIdle, fs, disk, app, project_roots, registry, graph, script_states,
                  data, nodes, stack, call, pre, events, execLog, saved,
                  now, ticks, scheduler_file, lastFired >>

\* the loop is over: line 963
TickEnd ==
  /\ tick.pc = "eval" /\ stack = <<>> /\ tick.i > Len(scheduled_scripts)
  /\ scheduler_file' = save_scheduled_scripts(scheduled_scripts)
  /\ tick' = NoTick
  /\ UNCHANGED << runner, leftIdle, fs, disk, app, project_roots, registry, graph, script_states,
                  data, nodes, stack, call, pre, events, execLog, saved,
                  now, ticks, scheduled_scripts, lastFired >>

Next ==
  \/ \E t \in Scripts : RunScript(t)
  \/ \E t \in Scripts : ContinueScript(t)
  \/ \E t \in Scripts : RunPartialScript(t)
  \/ CheckPreds
  \/ CheckMain
  \/ CheckReturn
  \/ CheckRaised
  \/ RunEnter
  \/ RunPreds
  \/ RunRequires
  \/ RunBody
  \/ ResetState
  \/ Refresh
  \/ AddProject
  \/ RemoveProject
  \/ Restart

Spec == Init /\ [][Next]_vars

\* ------------------------------------------- the application with its scheduler

\* the file systems with two scripts in the default directory and a disk
\* that takes every write
SchedScenarios == {s \in Scenarios : Len(s.scripts) = 2 /\ ~s.flaky}

\* the application starts without a snapshot and without a schedule
SchedInit == Init /\ fs \in SchedScenarios /\ disk = Pickle(EmptyDict)

\* the user runs scripts, resets, adds and removes the project, restarts and
\* schedules scripts, and the timer of the scheduler times out
SchedNext ==
  \/ \E t \in Scripts : RunScript(t)
  \/ CheckPreds
  \/ CheckMain
  \/ CheckReturn
  \/ CheckRaised
  \/ RunEnter
  \/ RunPreds
  \/ RunRequires
  \/ RunBody
  \/ ResetState
  \/ AddProject
  \/ RemoveProject
  \/ Restart
  \/ \E r \in ScheduleRequests : ScheduleScript(r[1], r[2])
  \/ \E d \in Jumps : Tick(d)
  \/ TickSkip
  \/ TickFire
  \/ TickFireUnknown
  \/ TickAfter
  \/ TickEnd

SchedSpec == SchedInit /\ [][SchedNext]_vars

\* ------------------------------------------------- ScriptRunner.run_script

\* the longest script the executor is given, in statements
MaxBody == 3

\* the lines of a script: an assignment to a name, a comment
\* "# ORCHESTRATOR.PRODUCE:" with the names it lists, a statement that raises,
\* sys.exit with a code, and a statement that writes to the error stream and
\* goes on
Line(op, names, code) == [op |-> op, names |-> names, code |-> code]

\* the kinds of line a script is made of
ScriptOps == {"bind", "mark", "raise", "exit", "warn"}

Statements ==
  {Line("bind", <<v>>, 0) : v \in {"x", "y"}}
    \cup {Line("mark", ns, 0) : ns \in {<<"x">>, <<"x", "y">>}}
    \cup {Line("raise", <<>>, 1), Line("exit", <<>>, 3), Line("warn", <<>>, 0)}

SourceCodes == UNION {[1..n -> Statements] : n \in 1..MaxBody}

\* the dictionaries run_script is given as state_data
StateDatas ==
  {[v \in Vars |-> IF v \in S THEN OldValue ELSE NoValue] :
     S \in {{}, {"x"}, {"x", "y"}}}

\* the script whose file run_script reads
RunnerScript == "A"

RECURSIVE Produces(_, _)
\* lines 41-45: the names of every PRODUCE comment, split at the commas, in
\* the order of the file
Produces(source_code, i) ==
  IF i > Len(source_code) THEN <<>>
  ELSE (IF source_code[i].op = "mark" THEN source_code[i].names ELSE <<>>)
         \o Produces(source_code, i + 1)

RECURSIVE WithStops(_, _)
\* lines 74-86: after every line with a PRODUCE comment comes a test of the
\* text that follows the last colon of the line, which prints the sentinel and
\* exits with code 0 when that text is a bound name
WithStops(source_code, i) ==
  IF i > Len(source_code) THEN <<>>
  ELSE (IF source_code[i].op = "mark"
        THEN << source_code[i], Line("stopif", source_code[i].names, 0) >>
        ELSE << source_code[i] >>)
         \o WithStops(source_code, i + 1)

\* lines 58-99: the temporary script loads the state file into its globals,
\* records the initial names, runs the lines of the script, and writes the
\* produced names back to the state file
TempScript(source_code, stop_at_produces, produces) ==
  << Line("load", <<>>, 0), Line("initial", <<>>, 0) >>
    \o (IF stop_at_produces THEN WithStops(source_code, 1) ELSE source_code)
    \o << Line("save", produces, 0) >>

\* one statement of the temporary script, executed by the subprocess: proc is
\* the process, file the content of the state file
Execute(s, proc, file) ==
  CASE s.op = "load" ->
         [proc |-> [proc EXCEPT !.globals = Unpickle(file)], file |-> file]
    [] s.op = "initial" ->
         [proc |-> [proc EXCEPT !.initial_globals = Keys(proc.globals)],
          file |-> file]
    [] s.op = "bind" ->
         [proc |-> [proc EXCEPT !.globals[s.names[1]] = Fresh(RunnerScript)],
          file |-> file]
    [] s.op = "mark" -> [proc |-> proc, file |-> file]
    [] s.op = "stopif" ->
         \* a text with a comma in it is not a key of globals()
         IF Len(s.names) = 1 /\ proc.globals[s.names[1]] # NoValue
         THEN [proc |-> [proc EXCEPT !.stdout = Append(@, s.names[1]),
                                     !.exited = TRUE],
               file |-> file]
         ELSE [proc |-> proc, file |-> file]
    [] s.op = "raise" ->
         [proc |-> [proc EXCEPT !.stderr = Append(@, "Traceback"),
                                !.returncode = s.code, !.exited = TRUE],
          file |-> file]
    [] s.op = "exit" ->
         [proc |-> [proc EXCEPT !.returncode = s.code, !.exited = TRUE],
          file |-> file]
    [] s.op = "warn" ->
         [proc |-> [proc EXCEPT !.stderr = Append(@, "Warning")], file |-> file]
    [] s.op = "save" ->
         [proc |-> proc,
          file |-> Pickle([v \in Vars |->
                             IF /\ v \in Range(s.names)
                                /\ proc.globals[v] # NoValue
                                /\ v \notin proc.initial_globals
                             THEN proc.globals[v] ELSE NoValue])]

RECURSIVE Interpret(_, _, _, _)
\* the subprocess runs the temporary script from statement i until its end or
\* until a statement ends the process
Interpret(lines, i, proc, file) ==
  IF i > Len(lines) \/ proc.exited THEN [proc |-> proc, file |-> file]
  ELSE LET next == Execute(lines[i], proc, file)
           n == IF lines[i].op \in ScriptOps THEN 1 ELSE 0
       IN Interpret(lines, i + 1, [next.proc EXCEPT !.done = @ + n], next.file)

\* the runner leaves every variable of the orchestrator alone
RunnerOnly ==
  UNCHANGED << fs, disk, app, project_roots, registry, graph, script_states,
               data, nodes, stack, call, pre, events, execLog, saved,
               now, ticks, scheduled_scripts, scheduler_file, tick, lastFired,
               leftIdle >>

\* lines 33-52: the source is read, its PRODUCE comments are collected, and the
\* whole of state_data is pickled into the temporary state file.  A call shares
\* nothing with the calls before it (its two files are new), so one call is
\* followed from its start to its return
run_script(source_code, state_data, stop_at_produces) ==
  /\ runner.pc = "idle"
  /\ runner' = [NoRun EXCEPT
                  !.pc = "state_file",
                  !.source_code = source_code,
                  !.state_data = state_data,
                  !.stop_at_produces = stop_at_produces,
                  !.produces = Produces(source_code, 1),
                  !.state_file = [exists |-> TRUE, content |-> Pickle(state_data)]]
  /\ RunnerOnly

\* lines 55-101: the temporary script is written
WriteTempScript ==
  /\ runner.pc = "state_file"
  /\ runner' = [runner EXCEPT
                  !.pc = "temp_script",
                  !.temp_script =
                     [exists |-> TRUE,
                      lines |-> TempScript(runner.source_code,
                                           runner.stop_at_produces,
                                           runner.produces)]]
  /\ RunnerOnly

\* a write to the temporary script raises (line 70 raises UnicodeEncodeError
\* for a script whose file name is not valid UTF-8; any write can raise
\* OSError): lines 55-101 are outside the try block, so the exception leaves
\* run_script at once, with the state file and the part of the temporary
\* script written so far in place
WriteTempScriptRaises ==
  /\ runner.pc = "state_file"
  /\ runner' = [runner EXCEPT
                  !.pc = "raised",
                  !.temp_script =
                     [exists |-> TRUE,
                      lines |-> << Line("load", <<>>, 0), Line("initial", <<>>, 0) >>]]
  /\ RunnerOnly

\* subprocess.run raises (FileNotFoundError when python_executable is not
\* found): the finally clause of lines 118-123 removes both files
RunSubprocessRaises ==
  /\ runner.pc = "temp_script"
  /\ runner' = [runner EXCEPT
                  !.pc = "raised",
                  !.state_file = NoStateFile,
                  !.temp_script = NoTempScript]
  /\ RunnerOnly

\* lines 105-110: subprocess.run with check=False waits for the process and
\* captures its streams; the exit code is kept in the result
RunSubprocess ==
  /\ runner.pc = "temp_script"
  /\ LET end == Interpret(runner.temp_script.lines, 1, NoProcess,
                          runner.state_file.content)
     IN runner' = [runner EXCEPT
                     !.pc = "ran",
                     !.result = end.proc,
                     !.state_file.content = end.file]
  /\ RunnerOnly

\* lines 113-116: the state file is read back when the error stream is empty
ReadBack ==
  /\ runner.pc = "ran"
  /\ runner' = [runner EXCEPT
                  !.pc = "read",
                  !.produced_data =
                     IF runner.result.stderr = <<>> /\ runner.state_file.exists
                     THEN Unpickle(runner.state_file.content)
                     ELSE EmptyDict]
  /\ RunnerOnly

\* pickle.load of line 116 raises (an object of a class that the script
\* defines cannot be loaded in the orchestrator): the finally clause removes
\* both files
ReadBackRaises ==
  /\ runner.pc = "ran"
  /\ runner.result.stderr = <<>> /\ runner.state_file.exists
  /\ runner.state_file.content # {}
  /\ runner' = [runner EXCEPT
                  !.pc = "raised",
                  !.state_file = NoStateFile,
                  !.temp_script = NoTempScript]
  /\ RunnerOnly

\* lines 118-125: both temporary files are removed, and produced_data, output
\* and error are returned
ReturnFromRun ==
  /\ runner.pc = "read"
  /\ runner' = [runner EXCEPT
                  !.pc = "returned",
                  !.state_file = NoStateFile,
                  !.temp_script = NoTempScript]
  /\ RunnerOnly

\* the orchestrator is at rest after its start
RunnerInit == SchedInit /\ fs.extra = <<>>

RunnerNext ==
  \/ \E source_code \in SourceCodes, state_data \in StateDatas,
        stop_at_produces \in BOOLEAN :
       run_script(source_code, state_data, stop_at_produces)
  \/ WriteTempScript
  \/ WriteTempScriptRaises
  \/ RunSubprocess
  \/ RunSubprocessRaises
  \/ ReadBack
  \/ ReadBackRaises
  \/ ReturnFromRun

RunnerSpec == RunnerInit /\ [][RunnerNext]_vars

\* ------------------------------------------------------------------- claims

\* the resolve call has done all its work and is about to return
Returning == TopIs("check", "ret")

\* the scripts whose body the call has executed, in order
Executed == {execLog[i].path : i \in 1..Len(execLog)}
FirstRun(p) == CHOOSE i \in 1..Len(execLog) :
                 execLog[i].path = p /\ \A j \in 1..(i - 1) : execLog[j].path # p

\* the target and its transitive producers
Below(t) == Ancestors(graph, t) \cup {t}

AcyclicBelow(t) ==
  \A p \in Below(t) : p \notin Reach(graph, Range(graph.pred[p]))

AllProduced(t) ==
  \A p \in Below(t) : \A v \in Range(Meta(registry, p).requires) :
     get_source_script(registry, v) # "none"

ProducersOf(v) == {p \in Paths(registry) : v \in Range(Meta(registry, p).produces)}

\* a call resolveAndRun(target) on an empty store, below an acyclic part of
\* the registry in which every required variable has a producer, in which
\* every executed script succeeded
C1_Case ==
  /\ Returning
  /\ ~call.stop /\ ~call.force
  /\ pre.data = EmptyDict
  /\ AcyclicBelow(call.target)
  /\ AllProduced(call.target)
  /\ \A i \in 1..Len(execLog) : execLog[i].ok

\* every producer of a variable an executed script requires ran before it
C1_Order ==
  \A i \in 1..Len(execLog) :
    \A v \in Range(Meta(registry, execLog[i].path).requires) :
      \A q \in ProducersOf(v) : \E j \in 1..(i - 1) : execLog[j].path = q

\* the executed scripts are finished and what they produce is in the store
C1_Finished ==
  \A p \in Executed :
    /\ script_states[p] = "finished"
    /\ Range(Meta(registry, p).produces) \subseteq Keys(data)

CallOver == TopIs("check", "ret") \/ TopIs("check", "raised")

\* C2: idempotence.  When the target's state is finished or partial_finished
\* and forceRun is false, resolveAndRun(target) executes no script and leaves
\* the store and the state of every script unchanged.
C2_Idempotence ==
  (/\ CallOver
   /\ ~call.force
   /\ StateOf(pre.states, call.target) \in Done)
  => /\ execLog = <<>>
     /\ data = pre.data
     /\ \A p \in Paths(registry) :
          StateOf(script_states, p) = StateOf(pre.states, p)

\* C3: cycle detection.  When the dependency graph has a cycle through the
\* target or its producers, resolveAndRun(target) ends by returning (the
\* recursion does not run into the depth limit), the target is left in state
\* error and its body is not executed.
C3_CycleDetection ==
  (CallOver /\ ~AcyclicBelow(call.target))
  => /\ TopIs("check", "ret")
     /\ script_states[call.target] = "error"
     /\ call.target \notin Executed

\* the variables the target requires that are neither in the store when the
\* call starts nor produced by any script
Unsatisfiable(t) ==
  {v \in Range(Meta(registry, t).requires) :
     v \notin Keys(pre.data) /\ get_source_script(registry, v) = "none"}

\* C4: unsatisfiable dependency.  When the target requires a variable that is
\* not in the store and that no script produces, resolveAndRun(target) does
\* not execute the target, the recorded state of the target is error, and the
\* store is unchanged.
C4_Unsatisfiable ==
  (CallOver /\ Unsatisfiable(call.target) # {})
  => /\ call.target \notin Executed
     /\ script_states[call.target] = "error"
     /\ data = pre.data

\* C5: partial stop.  A successful run with stopAtFirstProduce of a script
\* that produces p1 and later p2 merges only p1 into the store, and leaves
\* the script partial_finished.
C5_PartialStop ==
  \A i \in 1..Len(execLog) :
    LET e == execLog[i]
        prod == Meta(registry, e.path).produces
    IN (e.stop /\ e.ok /\ Len(prod) >= 2)
       => /\ e.after[prod[1]] = Fresh(e.path)
          /\ \A v \in Vars \ {prod[1]} : e.after[v] = e.before[v]
          /\ e.state = "partial_finished"

\* C6: after a successful execution the state of the script is
\* partial_finished if and only if the output of that run contained the
\* partial-stop sentinel, and finished otherwise; a run with
\* stopAtFirstProduce of a script without PRODUCE marker ends in finished.
C6_SentinelDecides ==
  \A i \in 1..Len(execLog) :
    LET e == execLog[i]
    IN e.ok => /\ e.state = (IF e.sentinel THEN "partial_finished" ELSE "finished")
               /\ (e.stop /\ Meta(registry, e.path).produces = <<>>
                     => e.state = "finished")

\* C7: when the execution of a script fails, its state becomes error and the
\* store holds the same names and the same values as before the execution.
C7_FailureLeavesStore ==
  \A i \in 1..Len(execLog) :
    LET e == execLog[i]
    IN ~e.ok => /\ e.state = "error"
                /\ e.after = e.before

\* C8: a script in a terminal state (finished, partial_finished or error) is
\* executed again only by a forced invocation of that script.
C8_TerminalNeedsForce ==
  \A i \in 1..Len(execLog) :
    LET e == execLog[i]
    IN e.was \in {"finished", "partial_finished", "error"}
       => e.force /\ e.path = call.target

\* C9: while the body of a script is executing, the recorded state of the
\* script is running.
C9_RunningWhileExecuting ==
  TopIs("run", "exec") => script_states[Top.path] = "running"

\* the state that reset leaves, and the store a load of the snapshot gives
ResetLeaves ==
  /\ \A p \in Scripts : StateOf(script_states, p) = "idle"
  /\ data = EmptyDict

StateChanges(p) ==
  /\ p \in Paths(registry) /\ p \in Paths(registry')
  /\ StateOf(script_states', p) # StateOf(script_states, p)

\* the step emits scriptStateChanged(p, s) as its last event
Emits(p, s) ==
  /\ events' # <<>>
  /\ events' = Append(events, [path |-> p, state |-> s])

\* C11: within a session of the application, every step that changes the
\* recorded state of a script emits a state-change event carrying the path
\* and the new state, the changes to idle made by reset included.
C11_EventAfterEveryChange ==
  [][~Restart => \A p \in Scripts :
                   StateChanges(p) => Emits(p, StateOf(script_states', p))]_vars

\* the provenance the application reports for a stored variable
\* (update_variables_list shows get_source_script for every key of the store)
Provenance(v) == get_source_script(registry, v)

\* the stored variables whose last writer is known: the script that ran in
\* this session and bound the value
WrittenByScript == {v \in Keys(data) : data[v].by \in Scripts}

\* C12: provenance is last-writer-wins.  For every variable of the store the
\* reported provenance is the script whose execution last wrote the variable,
\* also when several scripts of the registry declare the same produced name.
C12_LastWriterWins ==
  \A v \in WrittenByScript : Provenance(v) = data[v].by

\* C13: in every reachable state, after any sequence of runs, resets, rescans
\* and restarts, every variable held in the store has a provenance entry that
\* names a script.
C13_ProvenanceForEveryVariable ==
  \A v \in Keys(data) : Provenance(v) \in Scripts

\* the snapshot on disk is the pickle of the store as it is now
Persisted == disk = Pickle(data)

\* C14: persistence round trip.  When the store has been persisted, the load
\* done by a fresh start of the application gives a store with the same
\* values and the same provenance for every variable.
C14_RoundTrip ==
  [][(Restart /\ Persisted)
     => /\ data' = data
        /\ \A v \in Keys(data) :
             get_source_script(registry', v) = get_source_script(registry, v)]_vars

\* C15: whenever the orchestrator is idle between two operations and the
\* writes of the snapshot succeed, the persisted snapshot equals the store in
\* memory, so that a restart at that point loads exactly the current store.
C15_SnapshotFollowsStore ==
  (app = "up" /\ ~Busy /\ ~fs.flaky) => load_state_data(disk) = data

\* the loop of run_scheduled_scripts handles entry i in this step
Evaluates(i) == AtEntry /\ tick.i = i /\ tick' # tick

\* the step calls check_dependencies_and_run for the entry the loop is at
Fires == TickFire \/ TickFireUnknown

\* the minutes since entry i last fired
SinceFired(i) == now - FromIsoDate(lastFired[i])

\* C16: scheduler interval trigger.  On a tick an every_n_hours entry fires
\* if and only if it has not fired before or at least interval_hours have
\* elapsed since it last fired: with an interval of four hours it fires on
\* the first tick, not on a tick nine minutes after it fired, and again on a
\* tick four hours and one minute after it fired.
C16_IntervalTrigger ==
  [][\A i \in DOMAIN scheduled_scripts :
       (Evaluates(i) /\ Entry.frequency = "Cada X horas")
       => (Fires <=> \/ lastFired[i] = Null
                     \/ /\ lastFired[i] # Null
                        /\ SinceFired(i) >= Entry.hours_interval * 60)]_vars

\* the minutes between retries entered in the dialog for the entry
RetryAsked(e) ==
  (CHOOSE r \in ScheduleRequests :
     r[1] = e.script_path /\ r[2].frequency = e.frequency)[2].retry

\* the entry the loop is at fired before, its script did not end finished or
\* partial_finished, and the minutes between retries have elapsed
RetryDue ==
  /\ lastFired[tick.i] # Null
  /\ StateOf(script_states, Entry.script_path) \notin Done
  /\ RetryAsked(Entry) > 0
  /\ SinceFired(tick.i) >= RetryAsked(Entry)

\* C17: retry overlay.  An entry with retry_interval_minutes > 0 whose last
\* run did not succeed fires on a tick at which at least
\* retry_interval_minutes have elapsed since that run, also when its primary
\* schedule (daily, weekly or interval) does not hold at that tick.
C17_RetryOverlay ==
  [][\A i \in DOMAIN scheduled_scripts :
       (Evaluates(i) /\ RetryDue) => Fires]_vars

\* the call made for the entry the loop is at is over in this step
FiringEnds == tick.pc = "fired" /\ tick'.pc # "fired"

\* C18: each time a tick fires an entry, the last_run of the entry is set to
\* the firing time and its last_success is set to that time if and only if
\* the resulting state of the script is finished or partial_finished; an
\* entry that does not fire on the tick keeps both fields.
C18_LastRunAndLastSuccess ==
  [][/\ FiringEnds
        => LET e == scheduled_scripts'[tick.i]
           IN /\ Get(e, "last_run", Null) = IsoDate(now)
              /\ Get(e, "last_success", Null) = IsoDate(now)
                   <=> StateOf(script_states', e.script_path) \in Done
     /\ TickSkip
        => LET e == scheduled_scripts'[tick.i]
           IN /\ Get(e, "last_run", Null) = Get(Entry, "last_run", Null)
              /\ Get(e, "last_success", Null) = Get(Entry, "last_success", Null)]_vars

\* run_scheduled_scripts ends in this step
PassEnds == tick.pc # "idle" /\ tick'.pc = "idle"

\* C19: per-entry failure isolation.  When the evaluation or the firing of an
\* entry fails (for example because its script is no longer in the registry
\* or the graph), the entry is skipped: the pass of the tick ends only after
\* every entry of the list was evaluated, and it ends with the schedule
\* written to the schedule file.
C19_EntryFailureIsolated ==
  [][PassEnds => /\ tick.pc = "eval"
                 /\ tick.i > Len(scheduled_scripts)
                 /\ scheduler_file' = save_scheduled_scripts(scheduled_scripts')]_vars

\* the script bodies that are executing
Executing == {k \in 1..Len(stack) : stack[k].fn = "run" /\ stack[k].pc = "exec"}

\* the step is the start of check_dependencies_and_run
Invocation ==
  /\ Len(stack') = 1
  /\ stack'[1].fn = "check" /\ stack'[1].i = 1
  /\ check_dependencies_and_run(stack'[1].path, stack'[1].stop, stack'[1].force)

\* the step is the start of run_scheduled_scripts
PassStarts == tick.pc = "idle" /\ tick'.pc # "idle"

C22_StateResetOnlyExplicitly ==
  \A p \in leftIdle \cap Paths(registry) : StateOf(script_states, p) # "idle"


\* C23: an execution changes the store only in the variables the script
\* declares to produce, and only when it succeeds; the value the store holds
\* for an injected variable is the same after the execution as before it
C23_IsolationBoundary ==
  \A i \in 1..Len(execLog) :
    LET e == execLog[i]
    IN \A v \in Vars :
         e.after[v] # e.before[v] =>
           e.ok /\ v \in Range(Meta(registry, e.path).produces)


\* C24: when every required variable of the target is in the store as the
\* call starts, the call executes no script other than the target
C24_MinimalSubset ==
  (CallOver /\ Range(required_vars(call.target)) \subseteq Keys(pre.data))
    => Executed \subseteq {call.target}


\* C25: within one call no script is executed more than once
C25_MemoizedPerCall ==
  \A i, j \in 1..Len(execLog) : execLog[i].path = execLog[j].path => i = j


\* C26: when the body of a script is about to be executed no required variable
\* of the script is missing from the store, and every execution was given, for
\* each required name, the value the store held at that moment, and nothing else
C26_RequiresPresent ==
  /\ TopIs("run", "exec") => Range(required_vars(Top.path)) \subseteq Keys(data)
  /\ \A i \in 1..Len(execLog) :
       LET e == execLog[i]
           req == Range(Meta(registry, e.path).requires)
       IN \A v \in Vars :
            IF v \in req
            THEN e.before[v] # NoValue /\ e.injected[v] = e.before[v]
            ELSE e.injected[v] = NoValue

\* a script with a required variable has been executed after its producer, and
\* another script was refused in the same call because a variable was missing
C26_Witness ==
  /\ \E i \in 1..Len(execLog) :
       /\ i > 1
       /\ Meta(registry, execLog[i].path).requires # <<>>
  /\ \E k \in 1..Len(events) :
       /\ events[k].state = "error"
       /\ events[k].path \notin Executed


\* the last execution of p in the call, and the scripts for which it failed
LastRun(p) == CHOOSE i \in 1..Len(execLog) :
                execLog[i].path = p /\ \A j \in (i + 1)..Len(execLog) : execLog[j].path # p
FailedInCall == {p \in Executed : ~execLog[LastRun(p)].ok}

\* the producers of the target that neither failed nor depend on a script that
\* failed, and whose requirements all have a producer
Independent(t) ==
  {q \in Range(graph.pred[t]) : Below(q) \cap FailedInCall = {} /\ AllProduced(q)}

C28_GraphCompleteness ==
  \A c \in Paths(registry) :
    \A v \in Range(Meta(registry, c).requires) :
      \A p \in ProducersOf(v) :
        /\ <<p, c>> \in Edges(graph)
        /\ graph.var[<<p, c>>] = v


\* the label of every edge of the graph is produced by the source of the edge
\* and required by its end, and the graph has the nodes and the edges that the
\* registry in force gives
GraphSound ==
  /\ \A e \in Edges(graph) :
       /\ graph.var[e] \in Range(Meta(registry, e[1]).produces)
       /\ graph.var[e] \in Range(Meta(registry, e[2]).requires)
  /\ graph.nodes = Paths(registry)
  /\ Edges(graph) =
       {e \in Paths(registry) \X Paths(registry) :
          \E v \in Range(Meta(registry, e[2]).requires) : e[1] \in ProducersOf(v)}

\* C29: the graph is sound for the registry at start-up, and it is sound for
\* the registry in force after every step that changes the registry or the
\* graph: no node or edge of a removed script remains
C29_GraphSoundness ==
  GraphSound /\ [][(registry' # registry \/ graph' # graph) => GraphSound']_vars

\* the other project has been removed after a script of it, which had an edge
\* into a script that stays, was executed
C29_Witness ==
  /\ project_roots = <<DefaultDir>>
  /\ \E p \in leftIdle \ Paths(registry) :
       \E c \in Paths(registry) :
         \E v \in Range(Meta(registry, c).requires) :
           v \in Range(Meta(Discover(fs, <<DefaultDir, ExtraDir>>), p).produces)
  /\ Edges(graph) # {}


\* run_script has returned
Returned == runner.pc = "returned"

\* C21: when the process of the script ended with an exit code other than 0 or
\* wrote to its error stream, the output map run_script returns is empty
C21_FailureClassification ==
  (Returned /\ (runner.result.returncode # 0 \/ runner.result.stderr # <<>>))
    => Keys(runner.produced_data) = {}


\* C30: when the process ended with exit code 0 and an empty error stream, by
\* reaching its end or by the partial stop, the output map that run_script
\* returns holds the names of the PRODUCE comments that are bound in the process
\* at its end and were not in state_data, with the values bound, and no other
C30_ExecutorOutputs ==
  (Returned /\ runner.result.returncode = 0 /\ runner.result.stderr = <<>>)
    => runner.produced_data =
         [v \in Vars |->
            IF /\ v \in Range(runner.produces)
               /\ runner.result.globals[v] # NoValue
               /\ v \notin Keys(runner.state_data)
            THEN runner.result.globals[v] ELSE NoValue]


\* the lines of the script that are PRODUCE comments, and the lines that end
\* the process when they are executed
Markers == {i \in 1..Len(runner.source_code) : runner.source_code[i].op = "mark"}
Enders == {i \in 1..Len(runner.source_code) :
             runner.source_code[i].op \in {"raise", "exit"}}

\* the first PRODUCE comment the process reaches, 0 when it reaches none
FirstMarker ==
  LET reached == {i \in Markers : \A j \in Enders : i < j}
  IN IF reached = {} THEN 0 ELSE CHOOSE i \in reached : \A j \in reached : i <= j

\* the number of lines a process executes that is not stopped
Uncut ==
  IF Enders = {} THEN Len(runner.source_code)
  ELSE CHOOSE i \in Enders : \A j \in Enders : i <= j

\* C31: with stop_at_produces set, a process that reaches a PRODUCE comment
\* executes no line after the first one it reaches, prints the sentinel and
\* exits with code 0; with the flag unset no sentinel is printed and the script
\* is executed to its end or to the line that ends it
C31_PartialStop ==
  Returned =>
    IF runner.stop_at_produces /\ FirstMarker # 0
    THEN /\ runner.result.done = FirstMarker
         /\ runner.result.stdout # <<>>
         /\ runner.result.returncode = 0
    ELSE /\ runner.result.stdout = <<>>
         /\ runner.result.done = Uncut


\* C32: when a call of run_script has ended, by returning or by an exception,
\* neither the temporary state file nor the temporary script exists
C32_Cleanup ==
  runner.pc \in {"returned", "raised"} =>
    ~runner.state_file.exists /\ ~runner.temp_script.exists


\* the names of all the comments of one kind, in the order of the source
RECURSIVE NamesOf(_, _)
NamesOf(markers, i) ==
  IF i > Len(markers) THEN <<>>
  ELSE [k \in 1..Len(markers[i]) |-> markers[i][k].name] \o NamesOf(markers, i + 1)

\* C33: every readable file of the project directories has an entry in the
\* registry whose produces and requires lists are the names of its comments in
\* the order of the source, each name once, at its first place; a file that
\* cannot be read has no entry
C33_MetadataExtraction ==
  app = "up" =>
    \A r \in Range(project_roots) : \A i \in 1..Len(fs[r]) :
      LET f == fs[r][i]
      IN IF f.readable
         THEN /\ f.path \in Paths(registry)
              /\ Meta(registry, f.path).produces = Dedup(NamesOf(f.produce, 1), {})
              /\ Meta(registry, f.path).requires = Dedup(NamesOf(f.require, 1), {})
         ELSE f.path \notin Paths(registry)


\* C34: every execution of a script other than the target of the call is made
\* in full mode and ends in finished or error; an execution that ends in
\* partial_finished is one of the target, in a call with the partial flag
C34_OnlyTargetPartial ==
  \A i \in 1..Len(execLog) :
    LET e == execLog[i]
    IN /\ e.path # call.target => ~e.stop /\ e.state \in {"finished", "error"}
       /\ e.state = "partial_finished" => e.path = call.target /\ call.stop

\* a call with the partial flag is over in which a producer was executed and
\* finished, and the target ended in partial_finished
C34_Witness ==
  /\ CallOver /\ call.stop
  /\ \E i, j \in 1..Len(execLog) :
       /\ i < j
       /\ execLog[i].path # call.target /\ execLog[i].state = "finished"
       /\ execLog[j].path = call.target /\ execLog[j].state = "partial_finished"


\* C35: a forced call that returns has executed its target, whatever the state
\* of the target was; no script that was finished or partial_finished is
\* executed in it other than the target; and a target that was
\* partial_finished and succeeds ends in finished
C35_ForceOnlyTarget ==
  call.force =>
    /\ Returning => call.target \in Executed
    /\ \A i \in 1..Len(execLog) :
         LET e == execLog[i]
         IN /\ e.was \in Done => e.path = call.target /\ e.force
            /\ (e.path = call.target /\ e.was = "partial_finished" /\ e.ok)
                 => e.state = "finished"


\* a forced call is over whose target was partial_finished and ended in
\* finished, while a producer of the target that had finished was left alone
C35_Witness ==
  /\ Returning /\ call.force
  /\ StateOf(pre.states, call.target) = "partial_finished"
  /\ StateOf(script_states, call.target) = "finished"
  /\ call.target \in Executed
  /\ \E p \in Range(graph.pred[call.target]) :
       StateOf(pre.states, p) = "finished" /\ p \notin Executed


\* C36: whenever an event (path, s) is emitted, the recorded state of path
\* is s
C36_EventsTellTheTruth ==
  [][Len(events') > Len(events) =>
       LET e == events'[Len(events')]
       IN StateOf(script_states', e.path) = e.state]_vars


\* the step executes the body of p
ExecutesNow(p) ==
  Len(execLog') > Len(execLog) /\ execLog'[Len(execLog')].path = p

\* C37: while the scheduler runs an entry whose script was finished or
\* partial_finished when it fired, no script is executed and the store is not
\* changed, and the entry then gets the time of the firing as last_run; and a
\* firing executes the script of its entry only when the script has not been
\* executed since the last reset
C37_ScheduledAtMostOnce ==
  [][/\ (tick.pc = "fired" /\ Running /\ StateOf(pre.states, call.target) \in Done)
          => execLog' = <<>> /\ data' = data
     /\ (tick.pc = "fired" /\ stack = <<>> /\ tick' # tick)
          => scheduled_scripts'[tick.i].last_run = IsoDate(now)
     /\ \A p \in Scripts :
          (tick.pc = "fired" /\ ExecutesNow(p) /\ p = call.target)
            => p \notin leftIdle]_vars


\* a step of the call in progress: the handler runs on the thread of the event
\* loop and goes from one statement to the next without waiting for anything
CallStep ==
  \/ CheckPreds
  \/ CheckMain
  \/ CheckReturn
  \/ CheckRaised
  \/ RunEnter
  \/ RunPreds
  \/ RunRequires
  \/ RunBody

\* the orchestrator started on a disk that takes every write, with the
\* commands that start a call or change what a call finds; a call in progress
\* always goes on
LiveInit == Init /\ ~fs.flaky

LiveNext ==
  \/ \E t \in Scripts : RunScript(t)
  \/ \E t \in Scripts : ContinueScript(t)
  \/ \E t \in Scripts : RunPartialScript(t)
  \/ CallStep
  \/ ResetState
  \/ AddProject

LiveSpec == LiveInit /\ [][LiveNext]_vars /\ WF_vars(CallStep)

\* C38: a call on a target with no cycle below it comes to an end
C38_Terminates ==
  (Running /\ call.op = "run" /\ AcyclicBelow(call.target)) ~> ~Running


\* a call on a target with no cycle below it is about to return after it
\* executed a producer that failed, executed it again, and executed another
\* script
C38_Witness ==
  /\ Returning /\ AcyclicBelow(call.target)
  /\ Len(execLog) >= 3
  /\ \E i, j \in 1..Len(execLog) :
       i < j /\ execLog[i].path = execLog[j].path /\ ~execLog[i].ok


\* C39: a step other than a reset or a new start of the program removes no
\* name from the store, and an execution that succeeds changes the value of no
\* name other than the ones its script declares to produce
C39_StoreFrame ==
  [][/\ (Keys(data) \subseteq Keys(data')) \/ ResetState \/ Restart
     /\ \A p \in Scripts :
          (ExecutesNow(p) /\ execLog'[Len(execLog')].ok)
            => \A v \in Vars \ Range(Meta(registry, p).produces) :
                 data'[v] = data[v]]_vars


\* C40: when a call is about to return or has raised, every script of the
\* registry that is neither the target nor an ancestor of the target has the
\* recorded state it had when the call started
C40_StateFrame ==
  (CallOver /\ call.op = "run") =>
    \A p \in Paths(registry) \ Below(call.target) :
      StateOf(script_states, p) = StateOf(pre.states, p)

\* a call that executed its target and a producer is over, in a registry that
\* has a script outside the ancestors of the target whose state had been set
C40_Witness ==
  /\ CallOver /\ call.op = "run"
  /\ Len(execLog) >= 2
  /\ \E p \in Paths(registry) \ Below(call.target) :
       StateOf(pre.states, p) \in {"finished", "error"}

====
